---- MODULE Spec2Model ----
(***************************************************************************)
(* A model of the QSB DID example client (python_example/src/app):         *)
(* the SCALE compact codec and the signing-payload builders of main.py,    *)
(* the document resolver of did_resolver.py, the encrypted key store of    *)
(* did_store.py, the identifier derivation of did_utils.py and the flow of *)
(* main().                                                                 *)
(*                                                                         *)
(* Bytes are integers 0..255 and a byte string is a sequence of them.  A   *)
(* Python str is the sequence of its code points.  A call of a function    *)
(* ends in an outcome: Return(v), or Raise(e) when the exception e leaves  *)
(* the function.                                                           *)
(***************************************************************************)
EXTENDS Integers, Sequences, FiniteSets, TLC

VARIABLES
    call,       \* the function last called, with its arguments
    result,     \* the outcome of that call
    env,        \* the process environment: DID_STORE_PATH, DID_STORE_PASSWORD
    fs,         \* the file system: path -> contents of the JSON file, or NoFile
    saved,      \* history: path -> arguments and password of the last store_did_keys there
    pc,         \* main(): the step that runs next
    locals,     \* main(): its local variables
    submitted   \* the extrinsics submitted to the ledger, in order

vars == <<call, result, env, fs, saved, pc, locals, submitted>>

(***************************************************************************)
(* Outcomes of a call.                                                     *)
(***************************************************************************)
Return(v) == [raised |-> "", value |-> v]
Raise(e) == [raised |-> e, value |-> <<>>]
Returned(r) == r.raised = ""

NoCall == [fn |-> "none"]
NoResult == Raise("not called")

(***************************************************************************)
(* ASCII: the characters the program's literals use, with their codes.     *)
(***************************************************************************)
Ord(c) ==
    LET Digits == <<"0", "1", "2", "3", "4", "5", "6", "7", "8", "9">>
        Upper ==
            <<"A", "B", "C", "D", "E", "F", "G", "H", "I", "J", "K", "L", "M",
              "N", "O", "P", "Q", "R", "S", "T", "U", "V", "W", "X", "Y", "Z">>
        Lower ==
            <<"a", "b", "c", "d", "e", "f", "g", "h", "i", "j", "k", "l", "m",
              "n", "o", "p", "q", "r", "s", "t", "u", "v", "w", "x", "y", "z">>
        Punctuation ==
            [p \in {"#", ",", "-", ".", "/", ":", "_", "{", "}"} |->
                CASE p = "#" -> 35 [] p = "," -> 44 [] p = "-" -> 45 [] p = "." -> 46
                  [] p = "/" -> 47 [] p = ":" -> 58 [] p = "_" -> 95 [] p = "{" -> 123
                  [] p = "}" -> 125]
        Position(table) == CHOOSE i \in 1..Len(table) : table[i] = c
        InTable(table) == \E i \in 1..Len(table) : table[i] = c
    IN  IF InTable(Digits) THEN 47 + Position(Digits)
        ELSE IF InTable(Upper) THEN 64 + Position(Upper)
        ELSE IF InTable(Lower) THEN 96 + Position(Lower)
        ELSE Punctuation[c]

\* The bytes (equally the code points) of an ASCII literal, given as its characters.
Ascii(chars) == [i \in 1..Len(chars) |-> Ord(chars[i])]

IsPrefix(p, s) == Len(p) <= Len(s) /\ SubSeq(s, 1, Len(p)) = p
Drop(s, n) == SubSeq(s, n + 1, Len(s))

RECURSIVE Concat(_)
Concat(seqs) == IF seqs = <<>> THEN <<>> ELSE Head(seqs) \o Concat(Tail(seqs))

\* All sequences over S of length at most n.
SeqsUpTo(S, n) == UNION {[1..k -> S] : k \in 0..n}

(***************************************************************************)
(* main.py: the SCALE compact codec.                                       *)
(***************************************************************************)
Pow2(n) == 2 ^ n

\* int.to_bytes(width, "little") of (value << 2) | mode, byte by byte.  The
\* shifted integer itself needs 32 bits, so byte i is taken from value:
\* byte 0 is the low six bits of value above the mode, byte i >= 1 is
\* bits 8i-2 .. 8i+5 of value.
ShiftedLittleEndian(value, mode, width) ==
    [i \in 1..width |->
        IF i = 1 THEN (value % 64) * 4 + mode
        ELSE (value \div Pow2(8 * (i - 1) - 2)) % 256]

ScaleCompactOffByOne(value) ==
    IF value <= Pow2(6) THEN Return(<<(value * 4) % 256>>)
    ELSE IF value <= Pow2(14) THEN Return(ShiftedLittleEndian(value, 1, 2))
    ELSE IF value <= Pow2(30) THEN Return(ShiftedLittleEndian(value, 2, 4))
    ELSE Raise("ValueError")

_scale_compact_u32(value) ==
    IF value < Pow2(6) THEN Return(<<(value * 4) % 256>>)
    ELSE IF value < Pow2(14) THEN Return(ShiftedLittleEndian(value, 1, 2))
    ELSE IF value < Pow2(30) THEN Return(ShiftedLittleEndian(value, 2, 4))
    ELSE Raise("ValueError")

ScaleVecNoPrefix(data) ==
    LET prefix == _scale_compact_u32(Len(data))
    IN  IF Returned(prefix) THEN Return(<<Len(data) % 256>> \o data) ELSE prefix

_scale_vec_u8(data) ==
    LET prefix == _scale_compact_u32(Len(data))
    IN  IF Returned(prefix) THEN Return(prefix.value \o data) ELSE prefix

(***************************************************************************)
(* main.py: the module constants.                                          *)
(***************************************************************************)
SCHEMA_PREFIX ==
    Ascii(<<"Q", "S", "B", "_", "S", "C", "H", "E", "M", "A">>)
DID_CREATE_PREFIX ==
    Ascii(<<"Q", "S", "B", "_", "D", "I", "D", "_", "C", "R", "E", "A", "T", "E">>)
DID_ADD_KEY_PREFIX ==
    Ascii(<<"Q", "S", "B", "_", "D", "I", "D", "_", "A", "D", "D", "_", "K", "E", "Y">>)
DID_REVOKE_KEY_PREFIX ==
    Ascii(<<"Q", "S", "B", "_", "D", "I", "D", "_", "R", "E", "V", "O", "K", "E", "_", "K", "E", "Y">>)
DID_DEACTIVATE_PREFIX ==
    Ascii(<<"Q", "S", "B", "_", "D", "I", "D", "_", "D", "E", "A", "C", "T", "I", "V", "A", "T", "E">>)
DID_ADD_SERVICE_PREFIX ==
    Ascii(<<"Q", "S", "B", "_", "D", "I", "D", "_", "A", "D", "D", "_", "S", "E", "R", "V", "I", "C", "E">>)
DID_REMOVE_SERVICE_PREFIX ==
    Ascii(<<"Q", "S", "B", "_", "D", "I", "D", "_", "R", "E", "M", "O", "V", "E", "_", "S", "E", "R", "V", "I", "C", "E">>)
DID_SET_METADATA_PREFIX ==
    Ascii(<<"Q", "S", "B", "_", "D", "I", "D", "_", "S", "E", "T", "_", "M", "E", "T", "A", "D", "A", "T", "A">>)
DID_REMOVE_METADATA_PREFIX ==
    Ascii(<<"Q", "S", "B", "_", "D", "I", "D", "_", "R", "E", "M", "O", "V", "E", "_", "M", "E", "T", "A", "D", "A", "T", "A">>)
DID_ROTATE_KEY_PREFIX ==
    Ascii(<<"Q", "S", "B", "_", "D", "I", "D", "_", "R", "O", "T", "A", "T", "E", "_", "K", "E", "Y">>)
DID_UPDATE_ROLES_PREFIX ==
    Ascii(<<"Q", "S", "B", "_", "D", "I", "D", "_", "U", "P", "D", "A", "T", "E", "_", "R", "O", "L", "E", "S">>)
DEFAULT_SERVICE_ID ==
    Ascii(<<"s", "e", "r", "v", "i", "c", "e", "-", "1">>)
DEFAULT_SERVICE_TYPE ==
    Ascii(<<"E", "x", "a", "m", "p", "l", "e", "S", "e", "r", "v", "i", "c", "e">>)
DEFAULT_SERVICE_ENDPOINT ==
    Ascii(<<"h", "t", "t", "p", "s", ":", "/", "/", "e", "x", "a", "m", "p", "l", "e", ".", "c", "o", "m">>)
DEFAULT_SCHEMA_URI ==
    Ascii(<<"h", "t", "t", "p", "s", ":", "/", "/", "e", "x", "a", "m", "p", "l", "e", ".", "c", "o", "m", "/", "s", "c", "h", "e", "m", "a">>)

KEY_ROLE_INDEX ==
    [role \in {"Authentication", "AssertionMethod", "KeyAgreement",
               "CapabilityInvocation", "CapabilityDelegation"} |->
        CASE role = "Authentication" -> 0
          [] role = "AssertionMethod" -> 1
          [] role = "KeyAgreement" -> 2
          [] role = "CapabilityInvocation" -> 3
          [] role = "CapabilityDelegation" -> 4]

(***************************************************************************)
(* main.py: the signing-payload builders.  Python evaluates the operands   *)
(* of a chain of + from left to right, so the first operand that raises    *)
(* decides the outcome and nothing is returned.                            *)
(***************************************************************************)
RECURSIVE Chain(_, _)
Chain(head, parts) ==
    IF parts = <<>> THEN Return(head)
    ELSE IF ~Returned(Head(parts)) THEN Head(parts)
    ELSE Chain(head \o Head(parts).value, Tail(parts))

RECURSIVE AppendRoleIndexes(_, _)
AppendRoleIndexes(encoded, roles) ==
    IF roles = <<>> THEN Return(encoded)
    ELSE IF Head(roles) \notin DOMAIN KEY_ROLE_INDEX THEN Raise("KeyError")
    ELSE AppendRoleIndexes(Append(encoded, KEY_ROLE_INDEX[Head(roles)]), Tail(roles))

RECURSIVE AppendKnownRoleIndexes(_, _)
AppendKnownRoleIndexes(encoded, roles) ==
    IF roles = <<>> THEN Return(encoded)
    ELSE IF Head(roles) \notin DOMAIN KEY_ROLE_INDEX
         THEN AppendKnownRoleIndexes(encoded, Tail(roles))
    ELSE AppendKnownRoleIndexes(Append(encoded, KEY_ROLE_INDEX[Head(roles)]), Tail(roles))

ScaleRolesSkipUnknown(roles) ==
    LET prefix == _scale_compact_u32(Len(roles))
    IN  IF Returned(prefix) THEN AppendKnownRoleIndexes(prefix.value, roles) ELSE prefix

_scale_roles(roles) ==
    LET prefix == _scale_compact_u32(Len(roles))
    IN  IF Returned(prefix) THEN AppendRoleIndexes(prefix.value, roles) ELSE prefix

build_create_did_payload(public_key) ==
    Chain(DID_CREATE_PREFIX, <<_scale_vec_u8(public_key)>>)

build_add_service_payload(did_id, service_id, service_type, endpoint) ==
    LET service_encoded ==
            Chain(<<>>, <<_scale_vec_u8(service_id), _scale_vec_u8(service_type),
                          _scale_vec_u8(endpoint)>>)
    IN  IF Returned(service_encoded)
        THEN Chain(DID_ADD_SERVICE_PREFIX, <<_scale_vec_u8(did_id), service_encoded>>)
        ELSE service_encoded

build_remove_service_payload(did_id, service_id) ==
    Chain(DID_REMOVE_SERVICE_PREFIX, <<_scale_vec_u8(did_id), _scale_vec_u8(service_id)>>)

AddKeyUnderUpdateRolesTag(did_id, public_key, roles) ==
    Chain(DID_UPDATE_ROLES_PREFIX,
          <<_scale_vec_u8(did_id), _scale_vec_u8(public_key), _scale_roles(roles)>>)

build_add_key_payload(did_id, public_key, roles) ==
    Chain(DID_ADD_KEY_PREFIX,
          <<_scale_vec_u8(did_id), _scale_vec_u8(public_key), _scale_roles(roles)>>)

build_revoke_key_payload(did_id, public_key) ==
    Chain(DID_REVOKE_KEY_PREFIX, <<_scale_vec_u8(did_id), _scale_vec_u8(public_key)>>)

build_set_metadata_payload(did_id, key, value) ==
    Chain(DID_SET_METADATA_PREFIX,
          <<_scale_vec_u8(did_id), _scale_vec_u8(key), _scale_vec_u8(value)>>)

build_remove_metadata_payload(did_id, key) ==
    Chain(DID_REMOVE_METADATA_PREFIX, <<_scale_vec_u8(did_id), _scale_vec_u8(key)>>)

RotateKeyNewBeforeOld(did_id, old_public_key, new_public_key, roles) ==
    Chain(DID_ROTATE_KEY_PREFIX,
          <<_scale_vec_u8(did_id), _scale_vec_u8(new_public_key),
            _scale_vec_u8(old_public_key), _scale_roles(roles)>>)

build_rotate_key_payload(did_id, old_public_key, new_public_key, roles) ==
    Chain(DID_ROTATE_KEY_PREFIX,
          <<_scale_vec_u8(did_id), _scale_vec_u8(old_public_key),
            _scale_vec_u8(new_public_key), _scale_roles(roles)>>)

build_update_roles_payload(did_id, public_key, roles) ==
    Chain(DID_UPDATE_ROLES_PREFIX,
          <<_scale_vec_u8(did_id), _scale_vec_u8(public_key), _scale_roles(roles)>>)

build_deactivate_did_payload(did_id) ==
    Chain(DID_DEACTIVATE_PREFIX, <<_scale_vec_u8(did_id)>>)

\* main() builds the register_schema signing payload inline (line 374).
schema_signing_payload(schema_json) == Return(SCHEMA_PREFIX \o schema_json)

(***************************************************************************)
(* Python values that arrive from outside the program (a JSON-RPC          *)
(* response) carry their type.  A dict's items are a function from key     *)
(* names to values; a key that is absent is outside its DOMAIN.  The       *)
(* entries of a record (keys, services, metadata) are such functions; role *)
(* names are kept as strings.                                              *)
(***************************************************************************)
PyNone == [type |-> "NoneType"]
PyStr(chars) == [type |-> "str", chars |-> chars]
PyList(items) == [type |-> "list", items |-> items]
PyDict(items) == [type |-> "dict", items |-> items]
EmptyItems == <<>>

\* bool(x): None, and the empty str, list and dict are false.
Truthy(x) ==
    CASE x.type = "NoneType" -> FALSE
      [] x.type = "str" -> x.chars # <<>>
      [] x.type = "list" -> x.items # <<>>
      [] x.type = "dict" -> DOMAIN x.items # {}

\* dict.get(key, default)
Get(items, key, default) == IF key \in DOMAIN items THEN items[key] ELSE default

(***************************************************************************)
(* Conversions of did_resolver.py.                                         *)
(***************************************************************************)
\* str(n) of a non-negative integer: its decimal digits.
RECURSIVE Decimal(_)
Decimal(n) ==
    IF n < 10 THEN <<48 + n>> ELSE Append(Decimal(n \div 10), 48 + (n % 10))

\* bytes.decode("utf-8", errors="replace") on the bytes the model feeds it:
\* an ASCII byte is its own code point; a byte that no UTF-8 sequence
\* contains (0xC0, 0xC1, 0xF5..0xFF) becomes U+FFFD on its own.  Lead and
\* continuation bytes (0x80..0xBF, 0xC2..0xF4) are not among the inputs.
Utf8DecodeReplace(bytes) ==
    [i \in 1..Len(bytes) |-> IF bytes[i] < 128 THEN bytes[i] ELSE 65533]

Base58Alphabet ==
    Ascii(<<"1", "2", "3", "4", "5", "6", "7", "8", "9", "A", "B", "C", "D", "E", "F",
            "G", "H", "J", "K", "L", "M", "N", "P", "Q", "R", "S", "T", "U", "V", "W",
            "X", "Y", "Z", "a", "b", "c", "d", "e", "f", "g", "h", "i", "j", "k", "m",
            "n", "o", "p", "q", "r", "s", "t", "u", "v", "w", "x", "y", "z">>)

RECURSIVE BigEndian(_)
BigEndian(bytes) ==
    IF bytes = <<>> THEN 0
    ELSE 256 * BigEndian(SubSeq(bytes, 1, Len(bytes) - 1)) + bytes[Len(bytes)]

RECURSIVE LeadingZeros(_)
LeadingZeros(bytes) ==
    IF bytes = <<>> \/ Head(bytes) # 0 THEN 0 ELSE 1 + LeadingZeros(Tail(bytes))

RECURSIVE Base58Digits(_)
Base58Digits(n) ==
    IF n = 0 THEN <<>>
    ELSE Append(Base58Digits(n \div 58), Base58Alphabet[(n % 58) + 1])

\* base58.b58encode(v).decode("ascii"), for byte strings whose big-endian
\* value fits TLC's integers (at most three bytes in the model): one "1"
\* per leading zero byte, then the base-58 digits of the value.
\* A BLAKE2b digest is a term (see did_utils.py below), and so is its
\* base-58 form: the digest between two marks that are no characters.
b58encode(bytes) ==
    IF bytes # <<>> /\ Head(bytes) = -1 THEN <<-3>> \o bytes \o <<-4>>
    ELSE [i \in 1..LeadingZeros(bytes) |-> Base58Alphabet[1]]
             \o Base58Digits(BigEndian(bytes))

(***************************************************************************)
(* did_resolver.py                                                         *)
(***************************************************************************)
RoleMapDelegationAsInvocation ==
    [role \in {"Authentication", "AssertionMethod", "KeyAgreement",
               "CapabilityInvocation", "CapabilityDelegation"} |->
        CASE role = "Authentication" -> "authentication"
          [] role = "AssertionMethod" -> "assertionMethod"
          [] role = "KeyAgreement" -> "keyAgreement"
          [] role = "CapabilityInvocation" -> "capabilityInvocation"
          [] role = "CapabilityDelegation" -> "capabilityInvocation"]

role_map ==
    [role \in {"Authentication", "AssertionMethod", "KeyAgreement",
               "CapabilityInvocation", "CapabilityDelegation"} |->
        CASE role = "Authentication" -> "authentication"
          [] role = "AssertionMethod" -> "assertionMethod"
          [] role = "KeyAgreement" -> "keyAgreement"
          [] role = "CapabilityInvocation" -> "capabilityInvocation"
          [] role = "CapabilityDelegation" -> "capabilityDelegation"]

\* The loop of lines 13-20; service["id"] and the like raise KeyError.
RECURSIVE DecodeServices(_, _)
DecodeServices(services, rest) ==
    IF rest = <<>> THEN Return(services)
    ELSE LET service == Head(rest)
         IN  IF {"id", "service_type", "endpoint"} \subseteq DOMAIN service
             THEN DecodeServices(
                      Append(services,
                             [id |-> Utf8DecodeReplace(service["id"]),
                              service_type |-> Utf8DecodeReplace(service["service_type"]),
                              endpoint |-> Utf8DecodeReplace(service["endpoint"])]),
                      Tail(rest))
             ELSE Raise("KeyError")

\* The loop of lines 22-29.
RECURSIVE DecodeMetadata(_, _)
DecodeMetadata(metadata, rest) ==
    IF rest = <<>> THEN Return(metadata)
    ELSE LET item == Head(rest)
         IN  IF {"key", "value"} \subseteq DOMAIN item
             THEN DecodeMetadata(
                      Append(metadata,
                             [key |-> Utf8DecodeReplace(item["key"]),
                              value |-> Utf8DecodeReplace(item["value"])]),
                      Tail(rest))
             ELSE Raise("KeyError")

\* The inner loop of lines 58-61: the key id goes to the array of every role
\* that role_map knows.
RECURSIVE AppendRelationships(_, _, _)
AppendRelationships(doc, key_id, roles) ==
    IF roles = <<>> THEN doc
    ELSE LET role == Head(roles)
         IN  IF role \in DOMAIN role_map
             THEN AppendRelationships(
                      [doc EXCEPT ![role_map[role]] = Append(@, key_id)], key_id, Tail(roles))
             ELSE AppendRelationships(doc, key_id, Tail(roles))

VerificationMethod(did, index, key) ==
    [id |-> did \o Ascii(<<"#", "k", "e", "y", "s", "-">>) \o Decimal(index),
     type |-> "ML-DSA-44",
     controller |-> did,
     publicKeyMultibase |-> Ascii(<<"z">>) \o b58encode(key["public_key"]),
     revoked |-> Get(key, "revoked", FALSE),
     roles |-> Get(key, "roles", <<>>)]

\* The loop of lines 45-61, from the key at position index on.
RECURSIVE AppendKeys(_, _, _, _)
KeysFromZero(doc, did, keys, index) ==
    IF index > Len(keys) THEN Return(doc)
    ELSE LET key == keys[index]
         IN  IF "public_key" \notin DOMAIN key THEN Raise("KeyError")
             ELSE LET vm == VerificationMethod(did, index - 1, key)
                      withVm == [doc EXCEPT !.verificationMethod = Append(@, vm)]
                  IN  AppendKeys(AppendRelationships(withVm, vm.id, Get(key, "roles", <<>>)),
                                 did, keys, index + 1)

AppendKeys(doc, did, keys, index) ==
    IF index > Len(keys) THEN Return(doc)
    ELSE LET key == keys[index]
         IN  IF "public_key" \notin DOMAIN key THEN Raise("KeyError")
             ELSE LET vm == VerificationMethod(did, index, key)
                      withVm == [doc EXCEPT !.verificationMethod = Append(@, vm)]
                  IN  AppendKeys(AppendRelationships(withVm, vm.id, Get(key, "roles", <<>>)),
                                 did, keys, index + 1)

did_to_document(did, details) ==
    IF details.type # "dict" THEN Raise("AttributeError")
    ELSE
    LET services == DecodeServices(<<>>, Get(details.items, "services", <<>>))
        metadata == DecodeMetadata(<<>>, Get(details.items, "metadata", <<>>))
        doc == [context |-> <<"https://www.w3.org/ns/did/v1">>,
                id |-> did,
                version |-> Get(details.items, "version", PyNone),
                deactivated |-> Get(details.items, "deactivated", PyNone),
                verificationMethod |-> <<>>,
                authentication |-> <<>>,
                assertionMethod |-> <<>>,
                keyAgreement |-> <<>>,
                capabilityInvocation |-> <<>>,
                capabilityDelegation |-> <<>>,
                service |-> services.value,
                metadata |-> metadata.value]
    IN  IF ~Returned(services) THEN services
        ELSE IF ~Returned(metadata) THEN metadata
        ELSE AppendKeys(doc, did, Get(details.items, "keys", <<>>), 1)

\* resolve_did(substrate, did), given what substrate.rpc_request returned.
\* None is the value PyNone.
resolve_did(response, did) ==
    IF response.type # "dict" THEN Return(PyNone)
    ELSE LET res == Get(response.items, "result", PyNone)
         IN  IF ~Truthy(res) THEN Return(PyNone)
             ELSE did_to_document(did, res)

(***************************************************************************)
(* did_store.py: the conversions and the cryptography it calls.            *)
(***************************************************************************)
HexAlphabet ==
    Ascii(<<"0", "1", "2", "3", "4", "5", "6", "7", "8", "9", "a", "b", "c", "d", "e", "f">>)

\* bytes.hex(): two lowercase hexadecimal digits per byte, high nibble first.
Hex(bytes) ==
    [i \in 1..(2 * Len(bytes)) |->
        LET b == bytes[(i + 1) \div 2]
        IN  IF i % 2 = 1 THEN HexAlphabet[(b \div 16) + 1] ELSE HexAlphabet[(b % 16) + 1]]

\* bytes.fromhex() on text without whitespace: digits of either case;
\* ValueError on an odd number of digits or on a character that is no
\* hexadecimal digit.
FromHex(chars) ==
    LET Lowered(c) == IF c \in 65..70 THEN c + 32 ELSE c
        IsHexDigit(c) == \E i \in 1..16 : HexAlphabet[i] = Lowered(c)
        HexValue(c) == (CHOOSE i \in 1..16 : HexAlphabet[i] = Lowered(c)) - 1
    IN  IF Len(chars) % 2 = 1 \/ \E i \in 1..Len(chars) : ~IsHexDigit(chars[i])
        THEN Raise("ValueError")
        ELSE Return([i \in 1..(Len(chars) \div 2) |->
                        16 * HexValue(chars[2 * i - 1]) + HexValue(chars[2 * i])])

\* PBKDF2-HMAC-SHA256 (390000 iterations, 32 bytes) and its base64 form, as a
\* term: two derivations give the same key exactly when password and salt
\* are the same.
DeriveKey(password, salt) ==
    [kdf |-> "pbkdf2_sha256_390000", password |-> password, salt |-> salt]

\* A Fernet token, as a term: the key it was sealed under, the plaintext, and
\* whether its bytes are still the ones encrypt() produced (the HMAC check).
FernetEncrypt(key, plaintext) == [key |-> key, plaintext |-> plaintext, intact |-> TRUE]

FernetDecryptUnchecked(key, token) == Return(token.plaintext)

FernetDecrypt(key, token) ==
    IF token.intact /\ token.key = key THEN Return(token.plaintext)
    ELSE Raise("InvalidToken")

encrypt_private_key(private_key, password, salt) ==
    FernetEncrypt(DeriveKey(password, salt), private_key)

decrypt_private_key(encrypted_private_key, password, salt) ==
    FernetDecrypt(DeriveKey(password, salt), encrypted_private_key)

(***************************************************************************)
(* did_store.py: the store.  The file holds the record json.dump wrote;    *)
(* json.load gives the same record back.                                   *)
(***************************************************************************)
NoFile == [exists |-> FALSE]
File(record) == [exists |-> TRUE, record |-> record]

DefaultStorePath == "did_store.json"

\* os.getenv(name, default)
getenv(environment, name, default) == Get(environment, name, default)

\* The password both functions use: DID_STORE_PASSWORD, or what getpass()
\* reads when the variable is unset or empty.
StorePassword(environment, typed) ==
    LET password == getenv(environment, "DID_STORE_PASSWORD", "")
    IN  IF password = "" THEN typed ELSE password

StorePath(environment) == getenv(environment, "DID_STORE_PATH", DefaultStorePath)

StoreRecordKeysSwapped(did, public_key, private_key, password, salt) ==
    [did |-> did,
     public_key_hex |-> Hex(private_key),
     private_key_enc |-> encrypt_private_key(public_key, password, salt),
     salt_hex |-> Hex(salt),
     kdf |-> "pbkdf2_sha256_390000"]

\* The record of lines 44-50.
StoreRecord(did, public_key, private_key, password, salt) ==
    [did |-> did,
     public_key_hex |-> Hex(public_key),
     private_key_enc |-> encrypt_private_key(private_key, password, salt),
     salt_hex |-> Hex(salt),
     kdf |-> "pbkdf2_sha256_390000"]

StoreKeepsExistingFile(files, environment, typed, salt, did, public_key, private_key) ==
    IF files[StorePath(environment)].exists THEN files
    ELSE [files EXCEPT ![StorePath(environment)] =
             File(StoreRecord(did, public_key, private_key,
                              StorePassword(environment, typed), salt))]

\* store_did_keys: the file system after the call (open(..., "w") replaces
\* the file); the call returns None.
store_did_keys(files, environment, typed, salt, did, public_key, private_key) ==
    [files EXCEPT ![StorePath(environment)] =
        File(StoreRecord(did, public_key, private_key,
                         StorePassword(environment, typed), salt))]

\* load_did_keys: None when there is no file, else the tuple (did, public_key,
\* private_key) with its positions named, else the exception of the step
\* that failed.
load_did_keys(files, environment, typed) ==
    LET file == files[StorePath(environment)]
    IN  IF ~file.exists THEN Return(PyNone)
        ELSE LET record == file.record
                 salt == FromHex(record.salt_hex)
             IN  IF ~Returned(salt) THEN salt
                 ELSE LET private_key ==
                              decrypt_private_key(record.private_key_enc,
                                                  StorePassword(environment, typed),
                                                  salt.value)
                          public_key == FromHex(record.public_key_hex)
                      IN  IF ~Returned(private_key) THEN private_key
                          ELSE IF ~Returned(public_key) THEN public_key
                          ELSE Return([did |-> record.did,
                                       public_key |-> public_key.value,
                                       private_key |-> private_key.value])

(***************************************************************************)
(* did_utils.py.  hashlib.blake2b(material, digest_size=32).digest() is a  *)
(* term: the material between two marks that are no bytes, so two digests  *)
(* are equal exactly when the materials are (a collision-free hash); the   *)
(* width of 32 bytes is not represented.                                   *)
(***************************************************************************)
blake2b(material) == <<-1>> \o material \o <<-2>>

\* str.removeprefix("0x")
RemoveHexPrefix(chars) ==
    IF IsPrefix(Ascii(<<"0", "x">>), chars) THEN Drop(chars, 2) ELSE chars

derive_did_id(genesis_hash_hex, public_key) ==
    LET genesis_bytes == FromHex(RemoveHexPrefix(genesis_hash_hex))
    IN  IF ~Returned(genesis_bytes) THEN genesis_bytes
        ELSE Return(b58encode(blake2b(
                 Ascii(<<"Q", "S", "B", "_", "D", "I", "D">>)
                     \o genesis_bytes.value \o public_key)))

SchemaIdUnderDidTag(genesis_hash_hex, schema_json) ==
    LET genesis_bytes == FromHex(RemoveHexPrefix(genesis_hash_hex))
    IN  IF ~Returned(genesis_bytes) THEN genesis_bytes
        ELSE Return(Ascii(<<"d", "i", "d", ":", "q", "s", "b", ":",
                            "s", "c", "h", "e", "m", "a", ":">>)
                        \o b58encode(blake2b(
                               Ascii(<<"Q", "S", "B", "_", "D", "I", "D">>)
                                   \o genesis_bytes.value \o schema_json)))

derive_schema_id(genesis_hash_hex, schema_json) ==
    LET genesis_bytes == FromHex(RemoveHexPrefix(genesis_hash_hex))
    IN  IF ~Returned(genesis_bytes) THEN genesis_bytes
        ELSE Return(Ascii(<<"d", "i", "d", ":", "q", "s", "b", ":",
                            "s", "c", "h", "e", "m", "a", ":">>)
                        \o b58encode(blake2b(
                               Ascii(<<"Q", "S", "B", "_", "S", "C", "H", "E", "M", "A">>)
                                   \o genesis_bytes.value \o schema_json)))

(***************************************************************************)
(* States in which a specification leaves the parts it does not use.       *)
(***************************************************************************)
Paths == {DefaultStorePath, "alt_store.json"}

NoSaved == [stored |-> FALSE]
Pending == result.raised = "not called"

StoreIdle ==
    /\ env = <<>>
    /\ fs = [p \in Paths |-> NoFile]
    /\ saved = [p \in Paths |-> NoSaved]

MainIdle ==
    /\ pc = "idle"
    /\ locals = <<>>
    /\ submitted = <<>>

\* A pure function is called once on the arguments the initial state drew.
InitCall(calls) ==
    /\ call \in calls
    /\ result = NoResult
    /\ StoreIdle
    /\ MainIdle

Apply(fn, outcome) ==
    /\ call.fn = fn
    /\ Pending
    /\ result' = outcome
    /\ UNCHANGED <<call, env, fs, saved, pc, locals, submitted>>

(***************************************************************************)
(* SpecCodec: _scale_compact_u32 and _scale_vec_u8 on values and lengths   *)
(* around every power of two up to 2^30, the mode boundaries among them.   *)
(***************************************************************************)
CompactDelta == 3
VecDelta == 1

Around(centres, delta) ==
    {v \in UNION {(c - delta)..(c + delta) : c \in centres} : v >= 0}

\* length bytes: the first length-1 are fill, the last is last.
Filled(length, fill, last) ==
    [i \in 1..length |-> IF i = length THEN last ELSE fill]

VecInputs ==
    {Filled(n, f, l) : n \in Around({0, Pow2(6), Pow2(14)}, VecDelta),
                       f \in {0, 1, 255}, l \in {0, 1, 255}}

ShortVecInputs == {b \in VecInputs : Len(b) <= 1}

CodecCalls ==
    {[fn |-> "_scale_compact_u32", value |-> v] :
        v \in (0..Pow2(6)) \cup Around({Pow2(k) : k \in 0..30}, CompactDelta)}
        \cup {[fn |-> "_scale_vec_u8", data |-> b] : b \in VecInputs}

ScaleCompactU32 == Apply("_scale_compact_u32", _scale_compact_u32(call.value))
ScaleVecU8 == Apply("_scale_vec_u8", _scale_vec_u8(call.data))

InitCodec == InitCall(CodecCalls)
NextCodec == ScaleCompactU32 \/ ScaleVecU8
SpecCodec == InitCodec /\ [][NextCodec]_vars

IsByteString(b) == \A i \in 1..Len(b) : b[i] \in 0..255

\* C3: encode_compact_len (_scale_compact_u32) of v returns one byte v<<2
\* (mode bits 00) when v < 2^6, the two little-endian bytes of (v<<2)|01
\* when 2^6 <= v < 2^14, the four little-endian bytes of (v<<2)|10 when
\* 2^14 <= v < 2^30, and fails, returning no bytes, when v >= 2^30.  The
\* four-byte value is compared after undoing the shift, which keeps every
\* number below 2^31.
C3_CompactEncodingByRange ==
    (call.fn = "_scale_compact_u32" /\ ~Pending) =>
        LET v == call.value
            b == result.value
        IN  /\ v < Pow2(6) => Returned(result) /\ b = <<4 * v>>
            /\ (Pow2(6) <= v /\ v < Pow2(14)) =>
                   /\ Returned(result) /\ Len(b) = 2 /\ IsByteString(b)
                   /\ b[1] + 256 * b[2] = 4 * v + 1
            /\ (Pow2(14) <= v /\ v < Pow2(30)) =>
                   /\ Returned(result) /\ Len(b) = 4 /\ IsByteString(b)
                   /\ b[1] % 4 = 2
                   /\ (b[1] \div 4) + 64 * b[2] + Pow2(14) * b[3] + Pow2(22) * b[4] = v
            /\ v >= Pow2(30) => result.raised = "ValueError" /\ b = <<>>
            /\ v = 63 => Len(b) = 1
            /\ v \in {64, 16383} => Len(b) = 2
            /\ v = 16384 => Len(b) = 4

C3_Witness_FourByteBoundary ==
    /\ call.fn = "_scale_compact_u32" /\ call.value = Pow2(14)
    /\ Returned(result) /\ Len(result.value) = 4

\* A reader of the compact length prefix: the mode bits of the first byte
\* give the width, the remaining bits the length.
DecodeCompact(bytes) ==
    IF bytes = <<>> THEN [ok |-> FALSE, len |-> 0, used |-> 0]
    ELSE LET mode == bytes[1] % 4
         IN  CASE mode = 0 -> [ok |-> TRUE, len |-> bytes[1] \div 4, used |-> 1]
               [] mode = 1 ->
                    IF Len(bytes) < 2 THEN [ok |-> FALSE, len |-> 0, used |-> 0]
                    ELSE [ok |-> TRUE, len |-> (bytes[1] \div 4) + 64 * bytes[2], used |-> 2]
               [] mode = 2 ->
                    IF Len(bytes) < 4 THEN [ok |-> FALSE, len |-> 0, used |-> 0]
                    ELSE [ok |-> TRUE,
                          len |-> (bytes[1] \div 4) + 64 * bytes[2]
                                      + Pow2(14) * bytes[3] + Pow2(22) * bytes[4],
                          used |-> 4]
               [] mode = 3 -> [ok |-> FALSE, len |-> 0, used |-> 0]

\* A reader of one length-prefixed field: the field and the bytes after it.
DecodeVec(bytes) ==
    LET prefix == DecodeCompact(bytes)
    IN  IF prefix.ok /\ prefix.used + prefix.len <= Len(bytes)
        THEN [ok |-> TRUE,
              data |-> SubSeq(bytes, prefix.used + 1, prefix.used + prefix.len),
              rest |-> Drop(bytes, prefix.used + prefix.len)]
        ELSE [ok |-> FALSE, data |-> <<>>, rest |-> bytes]

\* A reader of count fields in a row.
RECURSIVE DecodeVecs(_, _)
DecodeVecs(bytes, count) ==
    IF count = 0 THEN [ok |-> TRUE, fields |-> <<>>, rest |-> bytes]
    ELSE LET first == DecodeVec(bytes)
             others == DecodeVecs(first.rest, count - 1)
         IN  IF first.ok /\ others.ok
             THEN [ok |-> TRUE, fields |-> <<first.data>> \o others.fields,
                   rest |-> others.rest]
             ELSE [ok |-> FALSE, fields |-> <<>>, rest |-> bytes]

\* C4: encode_vec (_scale_vec_u8) round-trips and is injective: reading the
\* mode bits, decoding the length and taking that many bytes recovers b;
\* no other byte string has the same encoding, no encoding is a proper
\* prefix of another, and two encodings in a row read back as the two fields.
C4_VecRoundTripInjective ==
    (call.fn = "_scale_vec_u8" /\ ~Pending) =>
        /\ Returned(result)
        /\ DecodeCompact(result.value).ok
        /\ DecodeCompact(result.value).len = Len(call.data)
        /\ DecodeVec(result.value) = [ok |-> TRUE, data |-> call.data, rest |-> <<>>]
        /\ \A other \in VecInputs \ {call.data} :
               LET encoded == _scale_vec_u8(other).value
               IN  /\ encoded # result.value
                   /\ ~IsPrefix(encoded, result.value)
                   /\ ~IsPrefix(result.value, encoded)
        /\ \A next \in ShortVecInputs :
               DecodeVecs(result.value \o _scale_vec_u8(next).value, 2)
                   = [ok |-> TRUE, fields |-> <<call.data, next>>, rest |-> <<>>]

C4_Witness_TwoByteLengthField ==
    /\ call.fn = "_scale_vec_u8" /\ Len(call.data) = Pow2(6)
    /\ Returned(result) /\ Len(result.value) = Pow2(6) + 2

(***************************************************************************)
(* SpecPayload: every payload builder, and _scale_roles, on short fields,  *)
(* one field long enough for a two-byte length, and role lists that may    *)
(* hold a name KEY_ROLE_INDEX does not know.                               *)
(***************************************************************************)
MaxFieldLen == 1
MaxRoles == 2

Fields == SeqsUpTo({0, 81}, MaxFieldLen) \cup {Filled(Pow2(6), 7, 9)}

RoleNames == DOMAIN KEY_ROLE_INDEX
RoleLists == SeqsUpTo(RoleNames \cup {"Bogus"}, MaxRoles)

Builders ==
    {"build_create_did_payload", "build_add_key_payload", "build_revoke_key_payload",
     "build_rotate_key_payload", "build_update_roles_payload",
     "build_deactivate_did_payload", "build_add_service_payload",
     "build_remove_service_payload", "build_set_metadata_payload",
     "build_remove_metadata_payload", "schema_signing_payload"}

\* One call of every builder for each choice of fields and role lists.
CallsOver(fields, roleLists) ==
    {[fn |-> "build_create_did_payload", public_key |-> k] : k \in fields}
    \cup {[fn |-> "build_add_key_payload", did_id |-> d, public_key |-> k, roles |-> r] :
             d \in fields, k \in fields, r \in roleLists}
    \cup {[fn |-> "build_revoke_key_payload", did_id |-> d, public_key |-> k] :
             d \in fields, k \in fields}
    \cup {[fn |-> "build_rotate_key_payload", did_id |-> d, old_public_key |-> k,
           new_public_key |-> n, roles |-> r] :
             d \in fields, k \in fields, n \in fields, r \in roleLists}
    \cup {[fn |-> "build_update_roles_payload", did_id |-> d, public_key |-> k,
           roles |-> r] : d \in fields, k \in fields, r \in roleLists}
    \cup {[fn |-> "build_deactivate_did_payload", did_id |-> d] : d \in fields}
    \cup {[fn |-> "build_add_service_payload", did_id |-> d, service_id |-> i,
           service_type |-> t, endpoint |-> e] :
             d \in fields, i \in fields, t \in fields, e \in fields}
    \cup {[fn |-> "build_remove_service_payload", did_id |-> d, service_id |-> i] :
             d \in fields, i \in fields}
    \cup {[fn |-> "build_set_metadata_payload", did_id |-> d, key |-> k, value |-> v] :
             d \in fields, k \in fields, v \in fields}
    \cup {[fn |-> "build_remove_metadata_payload", did_id |-> d, key |-> k] :
             d \in fields, k \in fields}
    \cup {[fn |-> "schema_signing_payload", schema_json |-> j] : j \in fields}

\* The calls the initial states draw, one disjunct per function.
DrawPayloadCall ==
    \/ \E k \in Fields : call = [fn |-> "build_create_did_payload", public_key |-> k]
    \/ \E d \in Fields, k \in Fields, r \in RoleLists :
           call = [fn |-> "build_add_key_payload", did_id |-> d, public_key |-> k,
                   roles |-> r]
    \/ \E d \in Fields, k \in Fields :
           call = [fn |-> "build_revoke_key_payload", did_id |-> d, public_key |-> k]
    \/ \E d \in Fields, k \in Fields, n \in Fields, r \in RoleLists :
           call = [fn |-> "build_rotate_key_payload", did_id |-> d, old_public_key |-> k,
                   new_public_key |-> n, roles |-> r]
    \/ \E d \in Fields, k \in Fields, r \in RoleLists :
           call = [fn |-> "build_update_roles_payload", did_id |-> d, public_key |-> k,
                   roles |-> r]
    \/ \E d \in Fields : call = [fn |-> "build_deactivate_did_payload", did_id |-> d]
    \/ \E d \in Fields, i \in Fields, t \in Fields, e \in Fields :
           call = [fn |-> "build_add_service_payload", did_id |-> d, service_id |-> i,
                   service_type |-> t, endpoint |-> e]
    \/ \E d \in Fields, i \in Fields :
           call = [fn |-> "build_remove_service_payload", did_id |-> d, service_id |-> i]
    \/ \E d \in Fields, k \in Fields, v \in Fields :
           call = [fn |-> "build_set_metadata_payload", did_id |-> d, key |-> k,
                   value |-> v]
    \/ \E d \in Fields, k \in Fields :
           call = [fn |-> "build_remove_metadata_payload", did_id |-> d, key |-> k]
    \/ \E j \in Fields : call = [fn |-> "schema_signing_payload", schema_json |-> j]
    \/ \E r \in RoleLists : call = [fn |-> "_scale_roles", roles |-> r]

BuildCreateDid ==
    Apply("build_create_did_payload", build_create_did_payload(call.public_key))
BuildAddKey ==
    Apply("build_add_key_payload",
          build_add_key_payload(call.did_id, call.public_key, call.roles))
BuildRevokeKey ==
    Apply("build_revoke_key_payload", build_revoke_key_payload(call.did_id, call.public_key))
BuildRotateKey ==
    Apply("build_rotate_key_payload",
          build_rotate_key_payload(call.did_id, call.old_public_key,
                                   call.new_public_key, call.roles))
BuildUpdateRoles ==
    Apply("build_update_roles_payload",
          build_update_roles_payload(call.did_id, call.public_key, call.roles))
BuildDeactivateDid ==
    Apply("build_deactivate_did_payload", build_deactivate_did_payload(call.did_id))
BuildAddService ==
    Apply("build_add_service_payload",
          build_add_service_payload(call.did_id, call.service_id,
                                    call.service_type, call.endpoint))
BuildRemoveService ==
    Apply("build_remove_service_payload",
          build_remove_service_payload(call.did_id, call.service_id))
BuildSetMetadata ==
    Apply("build_set_metadata_payload",
          build_set_metadata_payload(call.did_id, call.key, call.value))
BuildRemoveMetadata ==
    Apply("build_remove_metadata_payload",
          build_remove_metadata_payload(call.did_id, call.key))
BuildSchemaSigningPayload ==
    Apply("schema_signing_payload", schema_signing_payload(call.schema_json))
ScaleRoles == Apply("_scale_roles", _scale_roles(call.roles))

InitPayload ==
    /\ DrawPayloadCall
    /\ result = NoResult
    /\ StoreIdle
    /\ MainIdle
NextPayload ==
    \/ BuildCreateDid
    \/ BuildAddKey
    \/ BuildRevokeKey
    \/ BuildRotateKey
    \/ BuildUpdateRoles
    \/ BuildDeactivateDid
    \/ BuildAddService
    \/ BuildRemoveService
    \/ BuildSetMetadata
    \/ BuildRemoveMetadata
    \/ BuildSchemaSigningPayload
    \/ ScaleRoles
SpecPayload == InitPayload /\ [][NextPayload]_vars

\* The constant each builder puts first.
TagInCode ==
    [fn \in Builders |->
        CASE fn = "build_create_did_payload" -> DID_CREATE_PREFIX
          [] fn = "build_add_key_payload" -> DID_ADD_KEY_PREFIX
          [] fn = "build_revoke_key_payload" -> DID_REVOKE_KEY_PREFIX
          [] fn = "build_rotate_key_payload" -> DID_ROTATE_KEY_PREFIX
          [] fn = "build_update_roles_payload" -> DID_UPDATE_ROLES_PREFIX
          [] fn = "build_deactivate_did_payload" -> DID_DEACTIVATE_PREFIX
          [] fn = "build_add_service_payload" -> DID_ADD_SERVICE_PREFIX
          [] fn = "build_remove_service_payload" -> DID_REMOVE_SERVICE_PREFIX
          [] fn = "build_set_metadata_payload" -> DID_SET_METADATA_PREFIX
          [] fn = "build_remove_metadata_payload" -> DID_REMOVE_METADATA_PREFIX
          [] fn = "schema_signing_payload" -> SCHEMA_PREFIX]

\* One payload of every operation on the shortest fields, built once.
ProbePayloads ==
    LET probes == CallsOver({<<>>, <<81>>}, {<<>>, <<"Authentication">>})
        Build(c) ==
            CASE c.fn = "build_create_did_payload" -> build_create_did_payload(c.public_key)
              [] c.fn = "build_add_key_payload" ->
                     build_add_key_payload(c.did_id, c.public_key, c.roles)
              [] c.fn = "build_revoke_key_payload" ->
                     build_revoke_key_payload(c.did_id, c.public_key)
              [] c.fn = "build_rotate_key_payload" ->
                     build_rotate_key_payload(c.did_id, c.old_public_key,
                                              c.new_public_key, c.roles)
              [] c.fn = "build_update_roles_payload" ->
                     build_update_roles_payload(c.did_id, c.public_key, c.roles)
              [] c.fn = "build_deactivate_did_payload" -> build_deactivate_did_payload(c.did_id)
              [] c.fn = "build_add_service_payload" ->
                     build_add_service_payload(c.did_id, c.service_id, c.service_type,
                                               c.endpoint)
              [] c.fn = "build_remove_service_payload" ->
                     build_remove_service_payload(c.did_id, c.service_id)
              [] c.fn = "build_set_metadata_payload" ->
                     build_set_metadata_payload(c.did_id, c.key, c.value)
              [] c.fn = "build_remove_metadata_payload" ->
                     build_remove_metadata_payload(c.did_id, c.key)
              [] c.fn = "schema_signing_payload" -> schema_signing_payload(c.schema_json)
    IN  {[fn |-> c.fn, payload |-> Build(c).value] : c \in probes}

\* C2: every payload begins with the fixed tag of its operation; the tags
\* are pairwise distinct and none is a prefix of another; so the payload
\* begins with no other operation's tag and equals no payload of another
\* operation; add_key and update_roles on the same (did_id, public_key,
\* roles) differ, and differ only in the tag.
C2_TagsSeparatePayloads ==
    (call.fn \in Builders /\ Returned(result)) =>
        /\ IsPrefix(TagInCode[call.fn], result.value)
        /\ \A other \in Builders \ {call.fn} :
               /\ TagInCode[other] # TagInCode[call.fn]
               /\ ~IsPrefix(TagInCode[other], TagInCode[call.fn])
               /\ ~IsPrefix(TagInCode[call.fn], TagInCode[other])
               /\ ~IsPrefix(TagInCode[other], result.value)
        /\ \A probe \in ProbePayloads :
               probe.fn # call.fn => probe.payload # result.value
        /\ call.fn = "build_add_key_payload" =>
               LET twin == build_update_roles_payload(call.did_id, call.public_key,
                                                      call.roles).value
               IN  /\ twin # result.value
                   /\ Drop(twin, Len(DID_UPDATE_ROLES_PREFIX))
                          = Drop(result.value, Len(DID_ADD_KEY_PREFIX))

C2_Witness_AddKeyPayloadBuilt ==
    /\ call.fn = "build_add_key_payload" /\ Returned(result)
    /\ call.did_id # <<>> /\ call.roles # <<>>

\* The tags of the spec's table of operations.
TagInSpec ==
    [fn \in Builders |->
        CASE fn = "build_create_did_payload" ->
                 Ascii(<<"Q", "S", "B", "_", "D", "I", "D", "_", "C", "R", "E", "A", "T", "E">>)
          [] fn = "build_add_key_payload" ->
                 Ascii(<<"Q", "S", "B", "_", "D", "I", "D", "_", "A", "D", "D", "_", "K", "E", "Y">>)
          [] fn = "build_revoke_key_payload" ->
                 Ascii(<<"Q", "S", "B", "_", "D", "I", "D", "_", "R", "E", "V", "O", "K", "E", "_", "K", "E", "Y">>)
          [] fn = "build_rotate_key_payload" ->
                 Ascii(<<"Q", "S", "B", "_", "D", "I", "D", "_", "R", "O", "T", "A", "T", "E", "_", "K", "E", "Y">>)
          [] fn = "build_update_roles_payload" ->
                 Ascii(<<"Q", "S", "B", "_", "D", "I", "D", "_", "U", "P", "D", "A", "T", "E", "_", "R", "O", "L", "E", "S">>)
          [] fn = "build_deactivate_did_payload" ->
                 Ascii(<<"Q", "S", "B", "_", "D", "I", "D", "_", "D", "E", "A", "C", "T", "I", "V", "A", "T", "E">>)
          [] fn = "build_add_service_payload" ->
                 Ascii(<<"Q", "S", "B", "_", "D", "I", "D", "_", "A", "D", "D", "_", "S", "E", "R", "V", "I", "C", "E">>)
          [] fn = "build_remove_service_payload" ->
                 Ascii(<<"Q", "S", "B", "_", "D", "I", "D", "_", "R", "E", "M", "O", "V", "E", "_", "S", "E", "R", "V", "I", "C", "E">>)
          [] fn = "build_set_metadata_payload" ->
                 Ascii(<<"Q", "S", "B", "_", "D", "I", "D", "_", "S", "E", "T", "_", "M", "E", "T", "A", "D", "A", "T", "A">>)
          [] fn = "build_remove_metadata_payload" ->
                 Ascii(<<"Q", "S", "B", "_", "D", "I", "D", "_", "R", "E", "M", "O", "V", "E", "_", "M", "E", "T", "A", "D", "A", "T", "A">>)
          [] fn = "schema_signing_payload" ->
                 Ascii(<<"Q", "S", "B", "_", "S", "C", "H", "E", "M", "A">>)]

\* The byte fields of a call, in the order of the spec's table.
FieldsInSpec(c) ==
    CASE c.fn = "build_create_did_payload" -> <<c.public_key>>
      [] c.fn = "build_add_key_payload" -> <<c.did_id, c.public_key>>
      [] c.fn = "build_revoke_key_payload" -> <<c.did_id, c.public_key>>
      [] c.fn = "build_rotate_key_payload" -> <<c.did_id, c.old_public_key, c.new_public_key>>
      [] c.fn = "build_update_roles_payload" -> <<c.did_id, c.public_key>>
      [] c.fn = "build_deactivate_did_payload" -> <<c.did_id>>
      [] c.fn = "build_add_service_payload" ->
             <<c.did_id, c.service_id, c.service_type, c.endpoint>>
      [] c.fn = "build_remove_service_payload" -> <<c.did_id, c.service_id>>
      [] c.fn = "build_set_metadata_payload" -> <<c.did_id, c.key, c.value>>
      [] c.fn = "build_remove_metadata_payload" -> <<c.did_id, c.key>>

HasRoles(fn) ==
    fn \in {"build_add_key_payload", "build_rotate_key_payload", "build_update_roles_payload"}

\* The role codes of the spec, by code + 1.
RoleOfCode ==
    <<"Authentication", "AssertionMethod", "KeyAgreement", "CapabilityInvocation",
      "CapabilityDelegation">>

\* A reader of encode_roles: the count, then one code per role.
DecodeRoles(bytes) ==
    LET prefix == DecodeCompact(bytes)
    IN  IF /\ prefix.ok
           /\ Len(bytes) = prefix.used + prefix.len
           /\ \A i \in (prefix.used + 1)..Len(bytes) : bytes[i] \in 0..4
        THEN [ok |-> TRUE,
              roles |-> [i \in 1..prefix.len |-> RoleOfCode[bytes[prefix.used + i] + 1]]]
        ELSE [ok |-> FALSE, roles |-> <<>>]

\* C5: each builder returns its operation's tag, then its byte fields in the
\* order of the spec's table, each length-prefixed, then the role list where
\* the operation has one; the register_schema payload is the tag directly
\* followed by the raw schema bytes.  Read back from the returned bytes.
C5_PayloadLayout ==
    (call.fn \in Builders /\ Returned(result)) =>
        /\ IsPrefix(TagInSpec[call.fn], result.value)
        /\ LET body == Drop(result.value, Len(TagInSpec[call.fn]))
           IN  IF call.fn = "schema_signing_payload" THEN body = call.schema_json
               ELSE LET read == DecodeVecs(body, Len(FieldsInSpec(call)))
                    IN  /\ read.ok
                        /\ read.fields = FieldsInSpec(call)
                        /\ IF HasRoles(call.fn)
                           THEN DecodeRoles(read.rest) = [ok |-> TRUE, roles |-> call.roles]
                           ELSE read.rest = <<>>

C5_Witness_RotateKeyPayloadBuilt ==
    /\ call.fn = "build_rotate_key_payload" /\ Returned(result)
    /\ call.old_public_key # call.new_public_key
    /\ call.roles = <<"KeyAgreement", "CapabilityDelegation">>

AllKnown(roles) == \A i \in 1..Len(roles) : roles[i] \in RoleNames

\* C6: encode_roles (_scale_roles) returns the count followed by one byte per
\* role in input order, Authentication=0, AssertionMethod=1, KeyAgreement=2,
\* CapabilityInvocation=3, CapabilityDelegation=4; with a role name outside
\* these five the call fails and add_key, rotate_key and update_roles return
\* no payload.
C6_RolesEncodedOrRejected ==
    /\ (call.fn = "_scale_roles" /\ ~Pending) =>
           IF AllKnown(call.roles)
           THEN /\ Returned(result)
                /\ DecodeCompact(result.value).ok
                /\ DecodeCompact(result.value).len = Len(call.roles)
                /\ Len(result.value) = DecodeCompact(result.value).used + Len(call.roles)
                /\ \A i \in 1..Len(call.roles) :
                       /\ result.value[DecodeCompact(result.value).used + i] \in 0..4
                       /\ RoleOfCode[result.value[DecodeCompact(result.value).used + i] + 1]
                              = call.roles[i]
           ELSE result.raised = "KeyError" /\ result.value = <<>>
    /\ (HasRoles(call.fn) /\ ~Pending) =>
           IF AllKnown(call.roles) THEN Returned(result)
           ELSE result.raised = "KeyError" /\ result.value = <<>>

C6_Witness_AddKeyUnknownRoleRejected ==
    /\ call.fn = "build_add_key_payload"
    /\ call.roles = <<"Authentication", "Bogus">>
    /\ result.raised = "KeyError"

(***************************************************************************)
(* SpecResolver: resolve_did on the responses substrate.rpc_request can    *)
(* give: no mapping, a mapping without a result, an empty result, a result *)
(* that is no mapping, and records whose keys, services and metadata are   *)
(* complete or lack a field.                                               *)
(***************************************************************************)
MaxKeys == 2
MaxEntries == 2

SampleDid == Ascii(<<"d", "i", "d", ":", "q", "s", "b", ":", "7", "A", "b">>)

RoleOrder ==
    <<"Authentication", "AssertionMethod", "KeyAgreement", "CapabilityInvocation",
      "CapabilityDelegation", "FutureRole">>

\* The role lists of a ledger key: every choice of at most two of the six
\* names, all five known names, all six, and lists that repeat a name or
\* are not in the order of the table.
KeyPool ==
    {[public_key |-> <<1>>, revoked |-> FALSE, roles |-> r] :
        r \in {SelectSeq(RoleOrder, LAMBDA name : name \in chosen) :
                  chosen \in {c \in SUBSET {RoleOrder[i] : i \in 1..6} :
                                 Cardinality(c) <= 2}}
              \cup {SubSeq(RoleOrder, 1, 5), RoleOrder,
                    <<"CapabilityDelegation", "Authentication">>,
                    <<"Authentication", "FutureRole", "Authentication">>}}
    \cup {[public_key |-> <<0, 255>>, revoked |-> FALSE, roles |-> r] :
              r \in {<<>>, <<"Authentication">>, <<"Authentication", "CapabilityDelegation">>}}
    \cup {[public_key |-> <<2, 3, 4>>],
          [public_key |-> <<5>>, revoked |-> TRUE, roles |-> <<"KeyAgreement">>],
          [revoked |-> FALSE, roles |-> <<"Authentication">>]}

GoodKey == [public_key |-> <<1>>, revoked |-> FALSE, roles |-> <<"Authentication">>]

ServicePool ==
    {[id |-> <<115, 49>>, service_type |-> <<84>>, endpoint |-> <<104, 255>>],
     [service_type |-> <<84>>, endpoint |-> <<104>>],
     [id |-> <<115, 50>>, endpoint |-> <<104>>],
     [id |-> <<115, 51>>, service_type |-> <<84>>]}

MetadataPool ==
    {[key |-> <<107>>, value |-> <<118, 192>>], [value |-> <<118>>], [key |-> <<107>>]}

Record(keys, services, metadata) ==
    PyDict([version |-> 1, deactivated |-> FALSE, keys |-> keys,
            services |-> services, metadata |-> metadata])

ResolveCall(response) == [fn |-> "resolve_did", did |-> SampleDid, response |-> response]

DrawResolveCall ==
    \/ \E response \in
              {PyStr(<<101>>), PyNone, PyList(<<>>),
               PyDict(EmptyItems), PyDict([error |-> PyStr(<<101>>)]),
               PyDict([result |-> PyNone]), PyDict([result |-> PyDict(EmptyItems)]),
               PyDict([result |-> PyList(<<>>)]), PyDict([result |-> PyStr(<<>>)]),
               PyDict([result |-> PyStr(<<120>>)]), PyDict([result |-> PyList(<<1>>)])} :
           call = ResolveCall(response)
    \/ \E details \in
              {PyDict([version |-> 1]), PyDict([keys |-> <<GoodKey>>]),
               PyDict([deactivated |-> TRUE, services |-> <<>>]),
               Record([i \in 1..11 |-> GoodKey], <<>>, <<>>)} :
           call = ResolveCall(PyDict([result |-> details]))
    \/ \E n \in 0..MaxKeys : \E keys \in [1..n -> KeyPool] :
           call = ResolveCall(PyDict([result |-> Record(keys, <<>>, <<>>)]))
    \/ \E keys \in {<<>>, <<GoodKey>>} :
       \E n \in 0..MaxEntries, m \in 0..MaxEntries :
       \E services \in [1..n -> ServicePool], metadata \in [1..m -> MetadataPool] :
           call = ResolveCall(PyDict([result |-> Record(keys, services, metadata)]))

ResolveDid == Apply("resolve_did", resolve_did(call.response, call.did))

\* did_to_document called directly on a record, as resolve_did calls it.
DidToDocument == Apply("did_to_document", did_to_document(call.did, call.details))

InitResolver ==
    /\ \/ DrawResolveCall
       \/ \E n \in 0..MaxKeys : \E keys \in [1..n -> {GoodKey, [public_key |-> <<2, 3, 4>>]}] :
              call = [fn |-> "did_to_document", did |-> SampleDid,
                      details |-> Record(keys, <<>>, <<>>)]
    /\ result = NoResult
    /\ StoreIdle
    /\ MainIdle
NextResolver == ResolveDid \/ DidToDocument
SpecResolver == InitResolver /\ [][NextResolver]_vars

IsNone(v) == "type" \in DOMAIN v /\ v.type = "NoneType"

\* The record a call is about, when there is one.
HasDetails ==
    \/ call.fn = "did_to_document"
    \/ /\ call.fn = "resolve_did"
       /\ call.response.type = "dict"
       /\ "result" \in DOMAIN call.response.items
       /\ call.response.items["result"].type = "dict"
       /\ DOMAIN call.response.items["result"].items # {}
Details ==
    IF call.fn = "did_to_document" THEN call.details.items
    ELSE call.response.items["result"].items
LedgerKeys == Get(Details, "keys", <<>>)
LedgerServices == Get(Details, "services", <<>>)
LedgerMetadata == Get(Details, "metadata", <<>>)
DocumentBuilt == HasDetails /\ Returned(result) /\ ~IsNone(result.value)

\* A record with an entry that lacks a field the resolver reads.
LacksField ==
    \/ \E i \in 1..Len(LedgerKeys) : "public_key" \notin DOMAIN LedgerKeys[i]
    \/ \E i \in 1..Len(LedgerServices) :
           ~({"id", "service_type", "endpoint"} \subseteq DOMAIN LedgerServices[i])
    \/ \E i \in 1..Len(LedgerMetadata) :
           ~({"key", "value"} \subseteq DOMAIN LedgerMetadata[i])

\* No result, or a response of malformed shape.
MalformedResponse ==
    \/ call.response.type # "dict"
    \/ "result" \notin DOMAIN call.response.items
    \/ ~Truthy(call.response.items["result"])
    \/ call.response.items["result"].type # "dict"
    \/ LacksField

\* C7: resolve_did returns None and never raises whenever the lookup yields
\* no result or a response of malformed shape: a non-mapping response, a
\* missing or empty result, a result that is not a mapping, or a record
\* whose keys, services or metadata entries lack the expected fields.
C7_MalformedResponseIsNotFound ==
    (call.fn = "resolve_did" /\ ~Pending /\ MalformedResponse) =>
        Returned(result) /\ IsNone(result.value)

\* The id "<did>#keys-<n>", for n below 100.
KeyId(did, n) ==
    did \o Ascii(<<"#", "k", "e", "y", "s", "-">>)
        \o (IF n < 10 THEN <<48 + n>> ELSE <<48 + (n \div 10), 48 + (n % 10)>>)

Relationships ==
    {"authentication", "assertionMethod", "keyAgreement", "capabilityInvocation",
     "capabilityDelegation"}

\* C8: the document built by did_to_document has as many verificationMethod
\* entries as the record has keys, in ledger order; the n-th has id
\* "<did>#keys-<n>" and controller the DID; a record with no keys yields
\* empty verificationMethod and relationship arrays; the service and
\* metadata arrays are as long as the record's lists.
C8_DocumentMirrorsRecord ==
    DocumentBuilt =>
        LET doc == result.value
        IN  /\ doc.id = call.did
            /\ Len(doc.verificationMethod) = Len(LedgerKeys)
            /\ \A n \in 1..Len(LedgerKeys) :
                   /\ doc.verificationMethod[n].id = KeyId(call.did, n)
                   /\ doc.verificationMethod[n].controller = call.did
                   /\ doc.verificationMethod[n].publicKeyMultibase
                          = <<122>> \o b58encode(LedgerKeys[n]["public_key"])
                   /\ doc.verificationMethod[n].roles = Get(LedgerKeys[n], "roles", <<>>)
            /\ LedgerKeys = <<>> =>
                   /\ doc.verificationMethod = <<>>
                   /\ \A field \in Relationships : doc[field] = <<>>
            /\ Len(doc.service) = Len(LedgerServices)
            /\ Len(doc.metadata) = Len(LedgerMetadata)

C8_Witness_KeyAndServicesResolved ==
    /\ DocumentBuilt
    /\ Len(LedgerKeys) = 1 /\ Len(LedgerServices) = 2 /\ Len(LedgerMetadata) = 1
    /\ Len(result.value.verificationMethod) = 1 /\ Len(result.value.service) = 2

\* The relationship array of each role, from the spec.
RelationshipOfRole ==
    [role \in {"Authentication", "AssertionMethod", "KeyAgreement",
               "CapabilityInvocation", "CapabilityDelegation"} |->
        CASE role = "Authentication" -> "authentication"
          [] role = "AssertionMethod" -> "assertionMethod"
          [] role = "KeyAgreement" -> "keyAgreement"
          [] role = "CapabilityInvocation" -> "capabilityInvocation"
          [] role = "CapabilityDelegation" -> "capabilityDelegation"]

Range(seq) == {seq[i] : i \in 1..Len(seq)}

\* The position of the key whose id is keyId.
KeyIndexOf(did, keyId, count) == CHOOSE n \in 1..count : KeyId(did, n) = keyId

\* C9: a key's id is in a relationship array exactly when the matching role
\* is in the key's role set; a role name outside the five adds the id to no
\* array and raises nothing; in each array the ids are in the order the
\* keys were enumerated.
C9_RelationshipsFollowRoles ==
    DocumentBuilt =>
        LET doc == result.value
            ids == {KeyId(call.did, n) : n \in 1..Len(LedgerKeys)}
        IN  /\ \A role \in DOMAIN RelationshipOfRole :
                   LET array == doc[RelationshipOfRole[role]]
                   IN  /\ Range(array) \subseteq ids
                       /\ \A n \in 1..Len(LedgerKeys) :
                              (KeyId(call.did, n) \in Range(array))
                                  <=> (role \in Range(Get(LedgerKeys[n], "roles", <<>>)))
                       /\ \A i \in 1..Len(array), j \in 1..Len(array) :
                              i < j => KeyIndexOf(call.did, array[i], Len(LedgerKeys))
                                           <= KeyIndexOf(call.did, array[j], Len(LedgerKeys))
            /\ \A n \in 1..Len(LedgerKeys) :
                   Get(LedgerKeys[n], "roles", <<>>)
                           = <<"Authentication", "CapabilityDelegation">> =>
                       \A field \in Relationships :
                           (KeyId(call.did, n) \in Range(doc[field]))
                               <=> (field \in {"authentication", "capabilityDelegation"})

C9_Witness_AuthenticationAndDelegation ==
    /\ DocumentBuilt
    /\ Len(LedgerKeys) = 2
    /\ Get(LedgerKeys[1], "roles", <<>>) = <<"FutureRole">>
    /\ Get(LedgerKeys[2], "roles", <<>>) = <<"Authentication", "CapabilityDelegation">>
    /\ result.value.capabilityDelegation = <<KeyId(call.did, 2)>>

(***************************************************************************)
(* SpecStore: store_did_keys and load_did_keys on two store locations,     *)
(* with the environment changing between calls and the file altered from   *)
(* outside.  saved remembers, per location, what the last store_did_keys   *)
(* wrote and under which password, and whether the file was altered since. *)
(***************************************************************************)
SaltLen == 16

Passwords == {"x", "y"}
Salts == {Filled(SaltLen, 0, 1), Filled(SaltLen, 255, 2)}

\* (did, public_key, private_key) triples to store.
KeyMaterial ==
    {[did |-> Ascii(<<"d", "i", "d", ":", "q", "s", "b", ":", "A", "1">>),
      public_key |-> <<1, 2>>, private_key |-> <<9>>],
     [did |-> Ascii(<<"d", "i", "d", ":", "q", "s", "b", ":", "B", "2">>),
      public_key |-> <<171>>, private_key |-> <<0, 16>>]}

Environment(path, password) ==
    (IF path = "" THEN <<>> ELSE [DID_STORE_PATH |-> path])
        @@ (IF password = "" THEN <<>> ELSE [DID_STORE_PASSWORD |-> password])

Environments ==
    {Environment(path, password) :
        path \in {"", "alt_store.json"}, password \in {""} \cup Passwords}

\* What getpass() can read: asked only when DID_STORE_PASSWORD is not set.
Typed(environment) ==
    IF getenv(environment, "DID_STORE_PASSWORD", "") = "" THEN Passwords ELSE {""}

InitStore ==
    /\ call = NoCall
    /\ result = NoResult
    /\ env \in Environments
    /\ fs = [p \in Paths |-> NoFile]
    /\ saved = [p \in Paths |-> NoSaved]
    /\ MainIdle

StoreDidKeys ==
    \E material \in KeyMaterial, salt \in Salts, typed \in Typed(env) :
        /\ call' = [fn |-> "store_did_keys", did |-> material.did,
                    public_key |-> material.public_key,
                    private_key |-> material.private_key,
                    password |-> StorePassword(env, typed), path |-> StorePath(env)]
        /\ fs' = store_did_keys(fs, env, typed, salt, material.did,
                                material.public_key, material.private_key)
        /\ result' = Return(PyNone)
        /\ saved' = [saved EXCEPT ![StorePath(env)] =
                        [stored |-> TRUE, did |-> material.did,
                         public_key |-> material.public_key,
                         private_key |-> material.private_key,
                         password |-> StorePassword(env, typed), altered |-> FALSE,
                         overwrote |-> fs[StorePath(env)].exists]]
        /\ UNCHANGED <<env, pc, locals, submitted>>

LoadDidKeys ==
    \E typed \in Typed(env) :
        /\ call' = [fn |-> "load_did_keys", password |-> StorePassword(env, typed),
                    path |-> StorePath(env)]
        /\ result' = load_did_keys(fs, env, typed)
        /\ UNCHANGED <<env, fs, saved, pc, locals, submitted>>

\* Between two calls the process may be started with another environment.
ChangeEnvironment ==
    /\ env' \in Environments \ {env}
    /\ call' = NoCall
    /\ result' = NoResult
    /\ UNCHANGED <<fs, saved, pc, locals, submitted>>

\* Someone else edits private_key_enc in the file: the token no longer
\* carries the bytes encrypt() produced.
AlterCiphertext ==
    \E path \in Paths :
        /\ fs[path].exists
        /\ fs[path].record.private_key_enc.intact
        /\ fs' = [fs EXCEPT ![path].record.private_key_enc.intact = FALSE]
        /\ saved' = [saved EXCEPT ![path].altered = TRUE]
        /\ call' = NoCall
        /\ result' = NoResult
        /\ UNCHANGED <<env, pc, locals, submitted>>

\* Someone else replaces salt_hex in the file by the hex of another salt.
AlterSalt ==
    \E path \in Paths, salt \in Salts :
        /\ fs[path].exists
        /\ fs[path].record.salt_hex # Hex(salt)
        /\ fs' = [fs EXCEPT ![path].record.salt_hex = Hex(salt)]
        /\ saved' = [saved EXCEPT ![path].altered = TRUE]
        /\ call' = NoCall
        /\ result' = NoResult
        /\ UNCHANGED <<env, pc, locals, submitted>>

NextStore ==
    \/ StoreDidKeys
    \/ LoadDidKeys
    \/ ChangeEnvironment
    \/ AlterCiphertext
    \/ AlterSalt
SpecStore == InitStore /\ [][NextStore]_vars

\* C10: after store_did_keys(did, pub, priv) under password x, load_did_keys
\* with the same password on the same location, the file untouched in
\* between, returns exactly (did, pub, priv).
C10_StoreLoadRoundTrip ==
    (/\ call.fn = "load_did_keys"
     /\ saved[call.path].stored
     /\ ~saved[call.path].altered
     /\ call.password = saved[call.path].password) =>
        /\ Returned(result)
        /\ result.value = [did |-> saved[call.path].did,
                           public_key |-> saved[call.path].public_key,
                           private_key |-> saved[call.path].private_key]

C10_Witness_LoadedWhatWasStored ==
    /\ call.fn = "load_did_keys" /\ call.path = "alt_store.json"
    /\ saved[call.path].stored /\ ~saved[call.path].altered
    /\ call.password = saved[call.path].password
    /\ saved[DefaultStorePath].stored
    /\ saved[DefaultStorePath].private_key # saved[call.path].private_key
    /\ Returned(result)
    /\ result.value.private_key = saved[call.path].private_key

\* What stands in the file at the location of the last call, against what
\* store_did_keys put there.
LoadedFile == fs[call.path]
SealedUnder == LoadedFile.record.private_key_enc.key
CiphertextAltered == ~LoadedFile.record.private_key_enc.intact
SaltAltered == LoadedFile.record.salt_hex # Hex(SealedUnder.salt)
WrongPassword == call.password # saved[call.path].password

\* C11: load_did_keys on a stored record under a password other than the one
\* it was saved with, or after its ciphertext or its salt was altered, raises
\* InvalidToken (the code's DecryptionFailed): it returns neither None nor a
\* tuple; and no load, failed or not, changes a store file.
C11_FailedLoadRaises ==
    /\ [](/\ call.fn = "load_did_keys"
          /\ saved[call.path].stored
          /\ (WrongPassword \/ CiphertextAltered \/ SaltAltered)
          => result = Raise("InvalidToken"))
    /\ [][call'.fn = "load_did_keys" => fs' = fs]_vars

C11_Witness_WrongPasswordRaised ==
    /\ call.fn = "load_did_keys"
    /\ saved[call.path].stored
    /\ WrongPassword /\ ~CiphertextAltered /\ ~SaltAltered
    /\ result = Raise("InvalidToken")
    /\ LoadedFile.exists

\* C12: a store location holds exactly one record, that of the last
\* store_did_keys call on it (an earlier record is replaced, not kept,
\* appended to or merged), and load_did_keys on that location under the last
\* call's password returns the last call's (did, public_key, private_key).
C12_OneRecordPerLocation ==
    \A path \in Paths :
        (saved[path].stored /\ ~saved[path].altered) =>
            LET last == saved[path]
                location == IF path = DefaultStorePath THEN "" ELSE path
            IN  /\ \E salt \in Salts :
                       fs[path] = File(StoreRecord(last.did, last.public_key,
                                                   last.private_key, last.password,
                                                   salt))
                /\ load_did_keys(fs, Environment(location, last.password), "")
                       = Return([did |-> last.did, public_key |-> last.public_key,
                                 private_key |-> last.private_key])

C12_Witness_SecondStoreReplacedFirst ==
    /\ call.fn = "store_did_keys"
    /\ saved[call.path].overwrote
    /\ fs[call.path].record.did = call.did
    /\ load_did_keys(fs, env, call.password).value.private_key = call.private_key

(***************************************************************************)
(* did_utils.py: one call of derive_did_id or derive_schema_id.            *)
(***************************************************************************)
MaxMaterialLen == 2

\* Genesis values as text: with and without 0x, either case, an odd number
\* of digits, no digits, other characters.
GenesisValues ==
    {<<>>,
     Ascii(<<"0", "0">>),
     Ascii(<<"0", "x">>),
     Ascii(<<"0", "x", "0", "0">>),
     Ascii(<<"0", "0", "c", "7">>),
     Ascii(<<"0", "x", "0", "0", "c", "7">>),
     Ascii(<<"0", "x", "A", "B">>),
     Ascii(<<"a", "b">>),
     Ascii(<<"0", "x", "a", "b">>),
     Ascii(<<"5", "3", "4", "3">>),
     Ascii(<<"0", "x", "5", "3", "4", "3">>),
     Ascii(<<"0">>),
     Ascii(<<"0", "x", "0">>),
     Ascii(<<"z", "z">>),
     Ascii(<<"0", "x", "z", "z">>),
     Ascii(<<"0", "x", "0", "x", "1", "2">>)}

\* 68 and 83 are "D" and "S", the bytes at which the two tags part.
DeriveCalls ==
    {[fn |-> f, genesis_hash_hex |-> g, data |-> m] :
        f \in {"derive_did_id", "derive_schema_id"}, g \in GenesisValues,
        m \in SeqsUpTo({0, 68, 83}, MaxMaterialLen)}

DeriveDidId == Apply("derive_did_id", derive_did_id(call.genesis_hash_hex, call.data))
DeriveSchemaId ==
    Apply("derive_schema_id", derive_schema_id(call.genesis_hash_hex, call.data))

InitDerive == InitCall(DeriveCalls)
NextDerive == DeriveDidId \/ DeriveSchemaId
SpecDerive == InitDerive /\ [][NextDerive]_vars

\* The bytes that were hashed, read off an identifier: the base-58 part of
\* the identifier is the digest of exactly these bytes.
Base58Part(id) ==
    IF IsPrefix(Ascii(<<"d", "i", "d", ":", "q", "s", "b", ":">>), id)
    THEN Drop(id, 15) ELSE id
HashInput(id) == SubSeq(Base58Part(id), 3, Len(Base58Part(id)) - 2)

\* The calls a result is compared with: the call's own genesis and three
\* others, with every material.
DeriveProbes ==
    {other \in DeriveCalls :
        /\ other.fn = call.fn
        /\ other.genesis_hash_hex \in
               {call.genesis_hash_hex, <<>>, Ascii(<<"5", "3", "4", "3">>), Ascii(<<"0", "x", "0", "0", "c", "7">>)}}

WithoutPrefix(genesis) == RemoveHexPrefix(genesis)
WithPrefix(genesis) == Ascii(<<"0", "x">>) \o RemoveHexPrefix(genesis)

\* C13: the hash input of a DID id is never the hash input of a schema id,
\* for the same or for any other genesis and material, so a DID id never
\* equals the base-58 part of a schema id; the same inputs give the same
\* output; a genesis with and without the 0x prefix gives the same id.
C13_DerivationDomainSeparated ==
    (call.fn \in {"derive_did_id", "derive_schema_id"} /\ ~Pending) =>
        LET g == call.genesis_hash_hex
            Derive(genesis, data) ==
                IF call.fn = "derive_did_id" THEN derive_did_id(genesis, data)
                ELSE derive_schema_id(genesis, data)
            Other(genesis, data) ==
                IF call.fn = "derive_did_id" THEN derive_schema_id(genesis, data)
                ELSE derive_did_id(genesis, data)
        IN  /\ result = Derive(g, call.data)
            /\ ~IsPrefix(Ascii(<<"0", "x">>), WithoutPrefix(g)) =>
                   /\ Derive(WithoutPrefix(g), call.data) = result
                   /\ Derive(WithPrefix(g), call.data) = result
            /\ Returned(result) =>
                   \A other \in DeriveProbes :
                       LET id == Other(other.genesis_hash_hex, other.data)
                       IN  Returned(id) =>
                               /\ HashInput(id.value) # HashInput(result.value)
                               /\ Base58Part(id.value) # Base58Part(result.value)
            /\ Returned(result) =>
                   HashInput(result.value) =
                       (IF call.fn = "derive_did_id"
                        THEN Ascii(<<"Q", "S", "B", "_", "D", "I", "D">>)
                        ELSE Ascii(<<"Q", "S", "B", "_", "S", "C", "H", "E", "M", "A">>))
                       \o FromHex(WithoutPrefix(g)).value \o call.data

C13_Witness_DidIdFromPrefixedGenesis ==
    /\ call.fn = "derive_did_id"
    /\ call.genesis_hash_hex = Ascii(<<"0", "x", "0", "0", "c", "7">>)
    /\ call.data = <<83, 68>>
    /\ Returned(result)
    /\ HashInput(result.value) = Ascii(<<"Q", "S", "B", "_", "D", "I", "D">>) \o <<0, 199, 83, 68>>
    /\ Returned(derive_schema_id(call.genesis_hash_hex, call.data))

(***************************************************************************)
(* main.py: main().  The ledger, the signature scheme and the random       *)
(* sources are the program's surroundings: what they return is chosen      *)
(* from small sets.                                                        *)
(***************************************************************************)
\* generate_keypair() of ML-DSA-44: a (public_key, private_key) pair.
KeyPairs ==
    {[public_key |-> <<1, 2>>, private_key |-> <<9>>],
     [public_key |-> <<171>>, private_key |-> <<0, 16>>]}

\* sign(private_key, message), as a term: two signatures are the same
\* exactly when key and message are.
sign(private_key, message) == [signer |-> private_key, message |-> message]

\* substrate.get_block_hash(0)
GenesisHash == Ascii(<<"0", "x", "0", "0", "c", "7">>)

\* uuid4().hex, shortened to two digits.
Nonces == {Ascii(<<"0", "a">>), Ascii(<<"f", "1">>)}

\* build_schema_json(): json.dumps of DEFAULT_SCHEMA_BASE with the nonce
\* added, separators (",", ":"); 34 is the double quote.
build_schema_json(nonce) ==
    Ascii(<<"{">>) \o <<34>> \o Ascii(<<"n", "a", "m", "e">>) \o <<34>> \o Ascii(<<":">>)
        \o <<34>> \o Ascii(<<"e", "x", "a", "m", "p", "l", "e">>) \o <<34>> \o Ascii(<<",">>)
        \o <<34>> \o Ascii(<<"v", "e", "r", "s", "i", "o", "n">>) \o <<34>> \o Ascii(<<":">>)
        \o <<34>> \o Ascii(<<"1", ".", "0">>) \o <<34>> \o Ascii(<<",">>)
        \o <<34>> \o Ascii(<<"_", "n", "o", "n", "c", "e">>) \o <<34>> \o Ascii(<<":">>)
        \o <<34>> \o nonce \o <<34>> \o Ascii(<<"}">>)

\* What submit_extrinsic returns: a receipt that has is_success, or success,
\* or neither attribute.
Receipts ==
    {[is_success |-> TRUE], [is_success |-> FALSE], [success |-> TRUE],
     [success |-> FALSE], [extrinsic_hash |-> "0x"]}

\* Lines 212-214: is_success, else success, else False.
ReceiptSucceeded(receipt) ==
    IF "is_success" \in DOMAIN receipt THEN receipt["is_success"]
    ELSE Get(receipt, "success", FALSE)

\* What did_getByString answers while main runs.
MainResponses ==
    {PyDict([result |-> PyNone]),
     PyDict([result |-> Record(<<GoodKey>>, <<>>, <<>>)]),
     PyDict([result |-> Record(<<[revoked |-> FALSE]>>, <<>>, <<>>)])}

\* Assignments to local variables: the new bindings replace the old.
Bind(frame, bindings) == bindings @@ frame

\* substrate_client.py: each function composes the call of its name with
\* these parameters and submits it; the extrinsic joins those submitted.
Extrinsic(fn, params, did_signature) ==
    [fn |-> fn, params |-> params, did_signature |-> did_signature]


\* A step that submits an extrinsic and keeps the receipt; or the
\* submission raises and the exception leaves main.
Submit(extrinsic, bindings, next) ==
    \/ \E receipt \in Receipts :
           /\ submitted' = Append(submitted, extrinsic)
           /\ locals' = Bind(locals, Bind(bindings, [receipt |-> receipt]))
           /\ pc' = next
    \/ /\ pc' = "raised"
       /\ UNCHANGED <<locals, submitted>>

\* Lines 173-193: configuration, connection, account, balance.
MainStart ==
    /\ pc = "start"
    /\ \/ pc' = "exit"
       \/ pc' = "raised"
       \/ pc' = "load_keys"
    /\ UNCHANGED <<call, result, env, fs, saved, locals, submitted>>

LoadKeysFailureMeansAbsent ==
    /\ pc = "load_keys"
    /\ \E typed \in Typed(env) :
           LET stored == load_did_keys(fs, env, typed)
           IN  IF ~Returned(stored) \/ stored.value = PyNone
               THEN pc' = "create_did" /\ UNCHANGED locals
               ELSE /\ pc' = "resolve_first"
                    /\ locals' = Bind(locals, stored.value)
    /\ UNCHANGED <<call, result, env, fs, saved, submitted>>

\* Lines 195-199.
MainLoadKeys ==
    /\ pc = "load_keys"
    /\ \E typed \in Typed(env) :
           LET stored == load_did_keys(fs, env, typed)
           IN  IF ~Returned(stored)
               THEN pc' = "raised" /\ UNCHANGED locals
               ELSE IF stored.value = PyNone
               THEN pc' = "create_did" /\ UNCHANGED locals
               ELSE /\ pc' = "resolve_first"
                    /\ locals' = Bind(locals, stored.value)
    /\ UNCHANGED <<call, result, env, fs, saved, submitted>>

\* Lines 200-216.
MainCreateDid ==
    /\ pc = "create_did"
    /\ \E pair \in KeyPairs :
           LET did_id == derive_did_id(GenesisHash, pair.public_key).value
               did == Ascii(<<"d", "i", "d", ":", "q", "s", "b", ":">>) \o did_id
               payload == build_create_did_payload(pair.public_key).value
               did_signature == sign(pair.private_key, payload)
               bindings == [public_key |-> pair.public_key,
                            private_key |-> pair.private_key,
                            genesis_hash |-> GenesisHash, did |-> did]
           IN  \/ \E receipt \in Receipts :
                      /\ submitted' = Append(submitted,
                             Extrinsic("create_did", [public_key |-> pair.public_key],
                                       did_signature))
                      /\ locals' = Bind(locals, Bind(bindings, [receipt |-> receipt]))
                      /\ pc' = IF ReceiptSucceeded(receipt) THEN "store_keys" ELSE "exit"
               \/ /\ pc' = "raised"
                  /\ locals' = Bind(locals, bindings)
                  /\ UNCHANGED submitted
    /\ UNCHANGED <<call, result, env, fs, saved>>

\* Line 217.
MainStoreKeys ==
    /\ pc = "store_keys"
    /\ \E salt \in Salts, typed \in Typed(env) :
           /\ fs' = store_did_keys(fs, env, typed, salt, locals.did, locals.public_key,
                                   locals.private_key)
           /\ saved' = [saved EXCEPT ![StorePath(env)] =
                           [stored |-> TRUE, did |-> locals.did,
                            public_key |-> locals.public_key,
                            private_key |-> locals.private_key,
                            password |-> StorePassword(env, typed), altered |-> FALSE,
                            overwrote |-> fs[StorePath(env)].exists]]
    /\ pc' = "resolve_first"
    /\ UNCHANGED <<call, result, env, locals, submitted>>

\* Lines 219-229 and 323-329: resolve_did; the document is only printed.
MainResolve(label, next) ==
    /\ pc = label
    /\ \E response \in MainResponses :
           LET did_doc == resolve_did(response, locals.did)
           IN  IF ~Returned(did_doc)
               THEN pc' = "raised" /\ UNCHANGED locals
               ELSE /\ pc' = next
                    /\ locals' = Bind(locals, [genesis_hash |-> GenesisHash,
                                               did_doc |-> did_doc.value,
                                               did_bytes |-> locals.did])
    /\ UNCHANGED <<call, result, env, fs, saved, submitted>>

MainResolveFirst == MainResolve("resolve_first", "add_key")

\* Lines 231-246.
MainAddKey ==
    /\ pc = "add_key"
    /\ \E pair \in KeyPairs :
           LET add_key_roles == <<"AssertionMethod">>
               add_key_signature ==
                   sign(locals.private_key,
                        build_add_key_payload(locals.did_bytes, pair.public_key,
                                              add_key_roles).value)
           IN  Submit(Extrinsic("add_key",
                                [did_id |-> locals.did_bytes,
                                 public_key |-> pair.public_key, roles |-> add_key_roles],
                                add_key_signature),
                      [secondary_public_key |-> pair.public_key], "update_roles")
    /\ UNCHANGED <<call, result, env, fs, saved>>

\* Lines 248-262.
MainUpdateRoles ==
    /\ pc = "update_roles"
    /\ LET updated_roles == <<"CapabilityInvocation">>
           update_roles_signature ==
               sign(locals.private_key,
                    build_update_roles_payload(locals.did_bytes,
                                               locals.secondary_public_key,
                                               updated_roles).value)
       IN  Submit(Extrinsic("update_roles",
                            [did_id |-> locals.did_bytes,
                             public_key |-> locals.secondary_public_key,
                             roles |-> updated_roles],
                            update_roles_signature),
                  <<>>, "rotate_key")
    /\ UNCHANGED <<call, result, env, fs, saved>>

\* Lines 264-285.
MainRotateKey ==
    /\ pc = "rotate_key"
    /\ \E pair \in KeyPairs :
           LET rotate_roles == <<"CapabilityDelegation">>
               rotate_signature ==
                   sign(locals.private_key,
                        build_rotate_key_payload(locals.did_bytes,
                                                 locals.secondary_public_key,
                                                 pair.public_key, rotate_roles).value)
           IN  Submit(Extrinsic("rotate_key",
                                [did_id |-> locals.did_bytes,
                                 old_public_key |-> locals.secondary_public_key,
                                 new_public_key |-> pair.public_key,
                                 roles |-> rotate_roles],
                                rotate_signature),
                      [rotated_public_key |-> pair.public_key], "set_metadata")
    /\ UNCHANGED <<call, result, env, fs, saved>>

metadata_key == Ascii(<<"p", "r", "o", "f", "i", "l", "e">>)
metadata_value ==
    Ascii(<<"h", "t", "t", "p", "s", ":", "/", "/", "e", "x", "a", "m", "p", "l",
            "e", ".", "c", "o", "m", "/", "p", "r", "o", "f", "i", "l", "e">>)

\* Lines 287-302.
MainSetMetadata ==
    /\ pc = "set_metadata"
    /\ LET set_metadata_signature ==
               sign(locals.private_key,
                    build_set_metadata_payload(locals.did_bytes, metadata_key,
                                               metadata_value).value)
       IN  Submit(Extrinsic("set_metadata",
                            [did_id |-> locals.did_bytes,
                             entry |-> [key |-> metadata_key, value |-> metadata_value]],
                            set_metadata_signature),
                  <<>>, "add_service")
    /\ UNCHANGED <<call, result, env, fs, saved>>

\* Lines 304-321.
MainAddService ==
    /\ pc = "add_service"
    /\ LET add_service_signature ==
               sign(locals.private_key,
                    build_add_service_payload(locals.did_bytes, DEFAULT_SERVICE_ID,
                                              DEFAULT_SERVICE_TYPE,
                                              DEFAULT_SERVICE_ENDPOINT).value)
       IN  Submit(Extrinsic("add_service",
                            [did_id |-> locals.did_bytes,
                             service |-> [id |-> DEFAULT_SERVICE_ID,
                                          service_type |-> DEFAULT_SERVICE_TYPE,
                                          endpoint |-> DEFAULT_SERVICE_ENDPOINT]],
                            add_service_signature),
                  <<>>, "resolve_second")
    /\ UNCHANGED <<call, result, env, fs, saved>>

MainResolveSecond == MainResolve("resolve_second", "remove_service")

\* Lines 331-339.
MainRemoveService ==
    /\ pc = "remove_service"
    /\ Submit(Extrinsic("remove_service",
                        [did_id |-> locals.did_bytes, service_id |-> DEFAULT_SERVICE_ID],
                        sign(locals.private_key,
                             build_remove_service_payload(locals.did_bytes,
                                                          DEFAULT_SERVICE_ID).value)),
              <<>>, "remove_metadata")
    /\ UNCHANGED <<call, result, env, fs, saved>>

\* Lines 341-353.
MainRemoveMetadata ==
    /\ pc = "remove_metadata"
    /\ LET remove_metadata_signature ==
               sign(locals.private_key,
                    build_remove_metadata_payload(locals.did_bytes, metadata_key).value)
       IN  Submit(Extrinsic("remove_metadata",
                            [did_id |-> locals.did_bytes, key |-> metadata_key],
                            remove_metadata_signature),
                  <<>>, "revoke_key")
    /\ UNCHANGED <<call, result, env, fs, saved>>

\* Lines 355-367.
MainRevokeKey ==
    /\ pc = "revoke_key"
    /\ LET revoke_key_signature ==
               sign(locals.private_key,
                    build_revoke_key_payload(locals.did_bytes,
                                             locals.rotated_public_key).value)
       IN  Submit(Extrinsic("revoke_key",
                            [did_id |-> locals.did_bytes,
                             public_key |-> locals.rotated_public_key],
                            revoke_key_signature),
                  <<>>, "register_schema")
    /\ UNCHANGED <<call, result, env, fs, saved>>

\* Lines 369-383.
MainRegisterSchema ==
    /\ pc = "register_schema"
    /\ \E nonce \in Nonces :
           LET schema_json == build_schema_json(nonce)
               schema_id == derive_schema_id(locals.genesis_hash, schema_json).value
               schema_signature ==
                   sign(locals.private_key, schema_signing_payload(schema_json).value)
           IN  Submit(Extrinsic("register_schema",
                                [schema_json |-> schema_json,
                                 schema_uri |-> DEFAULT_SCHEMA_URI,
                                 issuer_did |-> locals.did],
                                schema_signature),
                      [schema_json |-> schema_json, schema_id |-> schema_id,
                       schema_signature |-> schema_signature],
                      "deprecate_schema")
    /\ UNCHANGED <<call, result, env, fs, saved>>

\* Lines 385-393: the signature passed is schema_signature of line 374.
MainDeprecateSchema ==
    /\ pc = "deprecate_schema"
    /\ Submit(Extrinsic("deprecate_schema",
                        [schema_id |-> locals.schema_id, issuer_did |-> locals.did],
                        locals.schema_signature),
              <<>>, "deactivate_did")
    /\ UNCHANGED <<call, result, env, fs, saved>>

\* Lines 395-405.
MainDeactivateDid ==
    /\ pc = "deactivate_did"
    /\ LET deactivate_signature ==
               sign(locals.private_key,
                    build_deactivate_did_payload(locals.did_bytes).value)
       IN  Submit(Extrinsic("deactivate_did", [did_id |-> locals.did_bytes],
                            deactivate_signature),
                  <<>>, "done")
    /\ UNCHANGED <<call, result, env, fs, saved>>

\* The store main finds: none, or one a previous run wrote under some
\* password, possibly altered since.
Init ==
    /\ pc = "start"
    /\ locals = <<>>
    /\ submitted = <<>>
    /\ call = NoCall
    /\ result = NoResult
    /\ env \in {Environment("", "x"), Environment("", "")}
    /\ \/ /\ fs = [p \in Paths |-> NoFile]
          /\ saved = [p \in Paths |-> NoSaved]
       \/ \E material \in KeyMaterial, password \in Passwords, altered \in BOOLEAN :
              LET file == File(StoreRecord(material.did, material.public_key,
                                           material.private_key, password,
                                           Filled(SaltLen, 0, 1)))
              IN  /\ fs = [p \in Paths |->
                              IF p # DefaultStorePath THEN NoFile
                              ELSE IF altered
                              THEN [file EXCEPT !.record.private_key_enc.intact = FALSE]
                              ELSE file]
                  /\ saved = [p \in Paths |->
                                 IF p # DefaultStorePath THEN NoSaved
                                 ELSE [stored |-> TRUE, did |-> material.did,
                                       public_key |-> material.public_key,
                                       private_key |-> material.private_key,
                                       password |-> password, altered |-> altered,
                                       overwrote |-> FALSE]]

Next ==
    \/ MainStart
    \/ MainLoadKeys
    \/ MainCreateDid
    \/ MainStoreKeys
    \/ MainResolveFirst
    \/ MainAddKey
    \/ MainUpdateRoles
    \/ MainRotateKey
    \/ MainSetMetadata
    \/ MainAddService
    \/ MainResolveSecond
    \/ MainRemoveService
    \/ MainRemoveMetadata
    \/ MainRevokeKey
    \/ MainRegisterSchema
    \/ MainDeprecateSchema
    \/ MainDeactivateDid

Spec == Init /\ [][Next]_vars

\* The payload the builders give for a submitted call's own arguments;
\* deprecate_schema has no builder.
HasBuilder(c) == c.fn # "deprecate_schema"

PayloadFor(c) ==
    LET a == c.params
    IN  CASE c.fn = "create_did" -> build_create_did_payload(a.public_key).value
          [] c.fn = "add_key" ->
                 build_add_key_payload(a.did_id, a.public_key, a.roles).value
          [] c.fn = "update_roles" ->
                 build_update_roles_payload(a.did_id, a.public_key, a.roles).value
          [] c.fn = "rotate_key" ->
                 build_rotate_key_payload(a.did_id, a.old_public_key,
                                          a.new_public_key, a.roles).value
          [] c.fn = "set_metadata" ->
                 build_set_metadata_payload(a.did_id, a.entry.key, a.entry.value).value
          [] c.fn = "add_service" ->
                 build_add_service_payload(a.did_id, a.service.id,
                                           a.service.service_type,
                                           a.service.endpoint).value
          [] c.fn = "remove_service" ->
                 build_remove_service_payload(a.did_id, a.service_id).value
          [] c.fn = "remove_metadata" ->
                 build_remove_metadata_payload(a.did_id, a.key).value
          [] c.fn = "revoke_key" ->
                 build_revoke_key_payload(a.did_id, a.public_key).value
          [] c.fn = "register_schema" -> schema_signing_payload(a.schema_json).value
          [] c.fn = "deactivate_did" -> build_deactivate_did_payload(a.did_id).value

\* C1: in main(), every submitted ledger call carries a signature made by
\* sign() over the payload built for that call's operation and arguments,
\* and no signature made for one operation is submitted with a call of a
\* different operation.
C1_SignatureBelongsToItsCall ==
    \A i \in DOMAIN submitted :
        /\ HasBuilder(submitted[i]) =>
               submitted[i].did_signature.message = PayloadFor(submitted[i])
        /\ \A j \in DOMAIN submitted :
               submitted[j].fn # submitted[i].fn =>
                   submitted[j].did_signature # submitted[i].did_signature

\* A receipt that reports success: is_success where the receipt has it,
\* success otherwise.
ReportedSuccess(receipt) ==
    \/ "is_success" \in DOMAIN receipt /\ receipt["is_success"]
    \/ /\ "is_success" \notin DOMAIN receipt
       /\ "success" \in DOMAIN receipt
       /\ receipt["success"]

StoreFile == fs[StorePath(env)]
CreateDidSubmitted == submitted' # submitted /\ submitted'[Len(submitted')].fn = "create_did"

\* C14: main() writes the key store only where load_did_keys found no file
\* and the create_did receipt reported success; when create_did fails main
\* exits, with no store written and nothing further submitted; and where a
\* store file exists, whether it decrypts or not, no step of main writes a
\* file or submits create_did, and the DID keypair main holds is the stored
\* one, not a generated one.
C14_StoreWrittenOnlyAfterCreate ==
    /\ [][fs' # fs =>
             /\ ~StoreFile.exists
             /\ Len(submitted) = 1 /\ submitted[1].fn = "create_did"
             /\ ReportedSuccess(locals.receipt)
             /\ \A path \in Paths :
                    fs'[path] # fs[path] =>
                        /\ path = StorePath(env)
                        /\ \E salt \in Salts, password \in Passwords :
                               fs'[path] = File(StoreRecord(locals.did, locals.public_key,
                                                            locals.private_key, password,
                                                            salt))]_vars
    /\ [][(CreateDidSubmitted /\ ~ReportedSuccess(locals'.receipt)) =>
             pc' = "exit" /\ fs' = fs]_vars
    /\ [][pc \notin {"exit", "raised", "done"}]_vars
    /\ [](pc = "exit" /\ submitted # <<>> =>
             Len(submitted) = 1 /\ \A path \in Paths : ~fs[path].exists)
    /\ [][StoreFile.exists =>
             /\ fs' = fs
             /\ ~CreateDidSubmitted
             /\ "private_key" \in DOMAIN locals' =>
                    /\ locals'.private_key = saved[StorePath(env)].private_key
                    /\ locals'.public_key = saved[StorePath(env)].public_key
                    /\ locals'.did = saved[StorePath(env)].did]_vars

C14_Witness_StoreWrittenAfterSuccess ==
    /\ pc = "resolve_first"
    /\ Len(submitted) = 1 /\ submitted[1].fn = "create_did"
    /\ DOMAIN locals.receipt = {"success"} /\ locals.receipt["success"]
    /\ StoreFile.exists /\ ~saved[StorePath(env)].overwrote
    /\ load_did_keys(fs, env, saved[StorePath(env)].password).value.private_key
           = locals.private_key

====
